---- MODULE Spec2Model ----
(***************************************************************************)
(* Model of the Binance futures breakout alert bot.                        *)
(*                                                                         *)
(*   src/main.py           cap-tiered watchlist, breakouts evaluated at    *)
(*                         clock minute 0, repeat alerts allowed           *)
(*   src/coinselectbot.py  top-gainer watchlist, breakouts evaluated in    *)
(*                         every cycle, one alert per symbol per refresh   *)
(*                                                                         *)
(* The specifications share the variables:                                 *)
(*   Spec        the monitor loop of either program (variable program):    *)
(*               what each iteration fetches, compares and stores          *)
(*   SpecSelect  get_top_gaining_symbols of main.py as a function of the   *)
(*               ticker snapshot and the three limits                      *)
(*   SpecCutoff  the tier cutoffs as a function of the number of pairs     *)
(*   SpecPersist watchlist refreshes over time: first-seen times and       *)
(*               is_persistent_symbol                                      *)
(*   SpecLoop    the monitor loop of either program with its clock, its    *)
(*               exception handlers and the delivery of alerts             *)
(*   SpecHour    the monitor loop of main.py as __main__ starts it, at any *)
(*               minute of the hour                                        *)
(*   SpecScore   the setup scorer of spec section 4.3                      *)
(*                                                                         *)
(* Prices, gains and volumes are floats in the programs; they are only     *)
(* ever compared, so they are modelled by small naturals.                  *)
(***************************************************************************)
EXTENDS Integers, Sequences, FiniteSets, TLC

VARIABLES
    program,            \* "main" | "coin": which file's monitor() runs
    symbols,            \* self.symbols
    symbols_24h_gain,   \* self.symbols_24h_gain
    previous_highs,     \* self.previous_highs
    previous_lows,      \* self.previous_lows
    alerted_symbols,    \* self.alerted_symbols (coinselectbot.py only)
    pc,                 \* position of monitor(): "start" | "check" | "checked" | "sleep"
    idx,                \* index of the next symbol of the for loop
    alerts,             \* symbol and type of the alerts sent in the current cycle
    lastEval,           \* what the last loop iteration fetched and decided
    refreshing,         \* Spec: what the refresh block of the latest cycle
                        \*   did, until the for loop runs an iteration
    data,               \* SpecSelect: the ticker snapshot (response.json())
    limits,             \* SpecSelect: <<top_gainers, mid_cap, low_cap>> limits
    final_list,         \* SpecSelect: the returned list
    tier_counts,        \* SpecSelect: symbols added by each of the three loops
    sel_pc,             \* SpecSelect / SpecCutoff: "input" | "done" | "idle"
    total,              \* SpecCutoff: len(sorted_by_volume)
    cutoffs,            \* SpecCutoff: <<large_cap_cutoff, mid_cap_cutoff>>
    now,                \* SpecPersist: datetime.now(), in seconds
    symbol_entry_times, \* SpecPersist: self.symbol_entry_times
    persistent_symbols, \* SpecPersist: self.persistent_symbols
    on_since,           \* SpecPersist: for each watchlist symbol, the time of the
                        \*   refresh that began its present stay on the watchlist
    queried,            \* SpecPersist: the last is_persistent_symbol call
    advances,           \* SpecPersist: how often the clock has advanced
    clock,              \* SpecLoop: datetime.now(), in seconds since the hour began
    hour_crossed,       \* SpecLoop: the clock has passed an hour boundary since
                        \*   the last cycle began
    check_interval,     \* SpecLoop: the argument of monitor()
    credentials,        \* SpecLoop: telegram_bot_token and telegram_chat_id are set
    cycle,              \* SpecLoop: what the current cycle has done so far
    alerted_since_refresh, \* SpecLoop: alerts per symbol since the last refresh
    this_hour,          \* SpecLoop: the present clock hour and the breakout
                        \*   evaluation: "started" | "open" | "evaluated" | "missed"
    previousOpenInterest, \* SpecScore: the open interest last read, per symbol
    scored              \* SpecScore: the last call of score()

vars == <<program, symbols, symbols_24h_gain, previous_highs, previous_lows,
          alerted_symbols, pc, idx, alerts, lastEval, refreshing, data, limits,
          final_list, tier_counts, sel_pc, total, cutoffs,
          now, symbol_entry_times, persistent_symbols, on_since, queried,
          advances, clock, hour_crossed, check_interval, credentials, cycle,
          alerted_since_refresh, this_hour, previousOpenInterest, scored>>

monitorVars == <<program, symbols, previous_highs, previous_lows,
                 alerted_symbols, pc, idx, alerts, lastEval, refreshing>>
selectVars == <<data, limits, final_list, tier_counts>>
cutoffVars == <<total, cutoffs>>
persistVars == <<now, symbol_entry_times, persistent_symbols, on_since,
                 queried, advances>>
loopVars == <<clock, hour_crossed, check_interval, credentials, cycle,
              alerted_since_refresh, this_hour>>
scoreVars == <<previousOpenInterest, scored>>

-----------------------------------------------------------------------------
(* Bounds of the model *)

MaxTickers == 4
MaxLimit == 1
MaxPrice == 2
MaxWatch == 2
MaxTotal == 99
MaxAdvances == 3

-----------------------------------------------------------------------------
(* Python dictionaries: functions whose domain is the set of keys *)

EmptyDict == [k \in {} |-> 0]

DictSet(d, k, v) == [x \in (DOMAIN d) \cup {k} |-> IF x = k THEN v ELSE d[x]]

Max(a, b) == IF a >= b THEN a ELSE b

Min(a, b) == IF a <= b THEN a ELSE b

-----------------------------------------------------------------------------
(* Ticker snapshots *)

USDTSymbols == {"AUSDT", "BUSDT", "CUSDT"}

OtherSymbols == {"ABTC"}

\* d['symbol'].endswith('USDT')
EndsWithUSDT(symbol) == symbol \in USDTSymbols

\* A ticker either gains much on little volume, or little on much volume.
Profiles == { [priceChangePercent |-> 2, quoteVolume |-> 1],
              [priceChangePercent |-> 1, quoteVolume |-> 2] }

Tickers ==
    { [symbol |-> s, priceChangePercent |-> p.priceChangePercent,
       quoteVolume |-> p.quoteVolume] : s \in USDTSymbols, p \in Profiles }
    \cup { [symbol |-> s, priceChangePercent |-> 2, quoteVolume |-> 2] :
           s \in OtherSymbols }

SeqsUpTo(S, n) == UNION { [1..k -> S] : k \in 0..n }

Snapshots == SeqsUpTo(Tickers, MaxTickers)

-----------------------------------------------------------------------------
(* get_top_gaining_symbols of main.py *)

top_gainers_limit == 15
mid_cap_limit == 10
low_cap_limit == 5

\* usdt_pairs = [d for d in data if d['symbol'].endswith('USDT')]
usdt_pairs(snapshot) == SelectSeq(snapshot, LAMBDA d : EndsWithUSDT(d.symbol))

\* One insertion of sorted(..., reverse=True): the sort is stable, so x, which
\* came later in the input, goes behind every element whose key is not smaller.
RECURSIVE InsertDescending(_, _, _)
InsertDescending(x, s, key) ==
    IF s = <<>> THEN <<x>>
    ELSE IF Head(s)[key] >= x[key]
         THEN <<Head(s)>> \o InsertDescending(x, Tail(s), key)
         ELSE <<x>> \o s

\* sorted(pairs, key=lambda x: float(x[key]), reverse=True)
RECURSIVE SortedDescending(_, _)
SortedDescending(pairs, key) ==
    IF pairs = <<>> THEN <<>>
    ELSE InsertDescending(pairs[Len(pairs)],
                          SortedDescending(SubSeq(pairs, 1, Len(pairs) - 1), key),
                          key)

sorted_by_gain(pairs) == SortedDescending(pairs, "priceChangePercent")

sorted_by_volume(pairs) == SortedDescending(pairs, "quoteVolume")

\* int(n * 0.3) in IEEE double arithmetic: equal to floor(3n/10) for n < 2000.
IntTimes03(n) == (3 * n) \div 10

\* int(n * 0.7) in IEEE double arithmetic: n * 0.7 rounds just below the
\* integer 7n/10 for these n (all such n below 330), and int() truncates.
RoundsBelow07 == {90, 170, 180}

IntTimes07(n) ==
    IF n \in RoundsBelow07 THEN (7 * n) \div 10 - 1 ELSE (7 * n) \div 10

large_cap_cutoff(n) == Max(1, IntTimes03(n))

mid_cap_cutoff_at_large(large, n) == Max(large, IntTimes07(n))

mid_cap_cutoff(large, n) == Max(large + 1, IntTimes07(n))

\* Python slice s[a:b] with 0 <= a, b (0-based, b exclusive, clipped).
Slice(s, a, b) == SubSeq(s, a + 1, Min(b, Len(s)))

large_cap_list(pairs) ==
    Slice(sorted_by_volume(pairs), 0, large_cap_cutoff(Len(pairs)))

mid_cap_list(pairs) ==
    LET large == large_cap_cutoff(Len(pairs))
    IN  Slice(sorted_by_volume(pairs), large, mid_cap_cutoff(large, Len(pairs)))

low_cap_list(pairs) ==
    LET large == large_cap_cutoff(Len(pairs))
    IN  Slice(sorted_by_volume(pairs), mid_cap_cutoff(large, Len(pairs)), Len(pairs))

\* pair in tier_list (dict equality)
InList(pair, list) == \E i \in 1..Len(list) : list[i] = pair

\* The state the three loops share: final_list, selected_symbols and
\* self.symbols_24h_gain.
Selection(list, selected, gains) ==
    [final_list |-> list, selected_symbols |-> selected, symbols_24h_gain |-> gains]

add_symbol_unchecked(sel, pair) ==
    Selection(Append(sel.final_list, pair.symbol),
              sel.selected_symbols \cup {pair.symbol},
              DictSet(sel.symbols_24h_gain, pair.symbol, pair.priceChangePercent))

add_symbol(sel, pair) ==
    IF pair.symbol \in sel.selected_symbols
    THEN sel
    ELSE Selection(Append(sel.final_list, pair.symbol),
                   sel.selected_symbols \cup {pair.symbol},
                   DictSet(sel.symbols_24h_gain, pair.symbol, pair.priceChangePercent))

LimitExceeded(list, lim) == Len(list) > lim[1] + lim[2] + lim[3]

\* len(final_list) >= top_gainers_limit + mid_cap_limit + low_cap_limit
LimitReached(list, lim) == Len(list) >= lim[1] + lim[2] + lim[3]

\* for pair in sorted_by_gain: if <limit reached>: break
\*                             if pair in tier_list: add_symbol(pair, ...)
RECURSIVE TierLoop(_, _, _, _)
TierLoop(pairs, tier_list, sel, lim) ==
    IF pairs = <<>> \/ LimitReached(sel.final_list, lim) THEN sel
    ELSE TierLoop(Tail(pairs), tier_list,
                  IF InList(Head(pairs), tier_list)
                  THEN add_symbol(sel, Head(pairs)) ELSE sel,
                  lim)

AfterLargeLoop(pairs, gains, lim) ==
    TierLoop(sorted_by_gain(pairs), large_cap_list(pairs),
             Selection(<<>>, {}, gains), lim)

AfterMidLoop(pairs, gains, lim) ==
    TierLoop(sorted_by_gain(pairs), mid_cap_list(pairs),
             AfterLargeLoop(pairs, gains, lim), lim)

AfterLowLoop(pairs, gains, lim) ==
    TierLoop(sorted_by_gain(pairs), low_cap_list(pairs),
             AfterMidLoop(pairs, gains, lim), lim)

LowLoopFirst(pairs, gains, lim) ==
    TierLoop(sorted_by_gain(pairs), large_cap_list(pairs),
        TierLoop(sorted_by_gain(pairs), mid_cap_list(pairs),
            TierLoop(sorted_by_gain(pairs), low_cap_list(pairs),
                     Selection(<<>>, {}, gains), lim), lim), lim)

\* The three loops in the order of the source: Large, then Mid, then Low.
ThreeLoops(pairs, gains, lim) == AfterLowLoop(pairs, gains, lim)

\* get_top_gaining_symbols(top_gainers_limit, mid_cap_limit, low_cap_limit) on
\* a successful response: the returned list and the updated symbols_24h_gain.
get_top_gaining_symbols(snapshot, gains, lim) ==
    LET pairs == usdt_pairs(snapshot)
    IN  IF pairs = <<>> THEN Selection(<<>>, {}, gains)
        ELSE ThreeLoops(pairs, gains, lim)

-----------------------------------------------------------------------------
(* get_top_gaining_symbols of coinselectbot.py *)

limit == 30

\* for pair in sorted_pairs[:limit]: top_symbols.append(symbol); record the gain
RECURSIVE TopLoop(_, _)
TopLoop(pairs, sel) ==
    IF pairs = <<>> THEN sel
    ELSE TopLoop(Tail(pairs),
                 Selection(Append(sel.final_list, Head(pairs).symbol),
                           sel.selected_symbols \cup {Head(pairs).symbol},
                           DictSet(sel.symbols_24h_gain, Head(pairs).symbol,
                                   Head(pairs).priceChangePercent)))

coin_get_top_gaining_symbols(snapshot, gains) ==
    TopLoop(Slice(sorted_by_gain(usdt_pairs(snapshot)), 0, limit),
            Selection(<<>>, {}, gains))

-----------------------------------------------------------------------------
(* First-seen times and persistence *)

\* set(list)
SymbolsOf(list) == { list[i] : i \in 1..Len(list) }

record_entry_times_every_time(times, list, t) ==
    [s \in (DOMAIN times) \cup SymbolsOf(list) |->
        IF s \in SymbolsOf(list) THEN t ELSE times[s]]

\* For every symbol the refresh puts on its list:
\*   if symbol not in self.symbol_entry_times:
\*       self.symbol_entry_times[symbol] = datetime.now()
\* The clock does not advance during one call.
record_entry_times(times, list, t) ==
    [s \in (DOMAIN times) \cup SymbolsOf(list) |->
        IF s \in DOMAIN times THEN times[s] ELSE t]

\* 2 * 24 * 60 * 60 seconds
persistence_threshold == 2 * 24 * 60 * 60

is_persistent_symbol_from_threshold(times, symbol, t) ==
    /\ symbol \in DOMAIN times
    /\ t - times[symbol] >= persistence_threshold

\* is_persistent_symbol(symbol) when datetime.now() reads t
is_persistent_symbol(times, symbol, t) ==
    /\ symbol \in DOMAIN times
    /\ t - times[symbol] > persistence_threshold

\* monitor(), after a refresh: the symbols of the new watchlist that have
\* become persistent join self.persistent_symbols.
newly_persistent(persistent, times, list, t) ==
    persistent \cup
        { s \in SymbolsOf(list) :
            /\ s \in DOMAIN times
            /\ s \notin persistent
            /\ t - times[s] > persistence_threshold }

-----------------------------------------------------------------------------
(* Responses of the market API *)

Prices == 1..MaxPrice

\* get_current_price: None on any failure, else float(data['price'])
NoPrice == [ok |-> FALSE, value |-> 0]

PriceOf(p) == [ok |-> TRUE, value |-> p]

PriceResponses == {NoPrice} \cup { PriceOf(p) : p \in Prices }

\* A kline row: index 2 is the high, index 3 the low.
Candles == { [high |-> h, low |-> l] : h \in 0..MaxPrice, l \in 0..MaxPrice }

\* The all-zero row of a degenerate response, and rows 0 < low <= high.
ClosedCandles == { c \in Candles : c.low <= c.high /\ (c.low = 0 => c.high = 0) }

\* get_klines: None on any failure, else the rows of the response. With
\* limit=2 the exchange answers klines[0], the last closed candle, and
\* klines[1], the candle in progress, which the programs never read.
NoKlines == [ok |-> FALSE, rows |-> <<>>]

KlinesOf(rows) == [ok |-> TRUE, rows |-> rows]

ShortKlines == KlinesOf(<<[high |-> MaxPrice, low |-> MaxPrice]>>)

KlinesResponses ==
    {NoKlines, KlinesOf(<<>>), ShortKlines}
    \cup { KlinesOf(<<c, c>>) : c \in ClosedCandles }

\* not klines or len(klines) < 2
KlinesUnusable(klines) == ~klines.ok \/ Len(klines.rows) < 2

\* The ticker snapshots the monitor loop sees.
WatchTickers ==
    { [symbol |-> "AUSDT", priceChangePercent |-> 2, quoteVolume |-> 1],
      [symbol |-> "BUSDT", priceChangePercent |-> 1, quoteVolume |-> 2] }

TickerError == [ok |-> FALSE, data |-> <<>>]

TickerResponses ==
    {TickerError}
    \cup { [ok |-> TRUE, data |-> s] : s \in SeqsUpTo(WatchTickers, MaxWatch) }

failed_get_top_gaining_symbols_keeping_watchlist(list, gains) ==
    Selection(list, SymbolsOf(list), gains)

\* get_top_gaining_symbols when the ticker request raises: except Exception
\* logs and returns [], whatever the watchlist (list) was; nothing was added
\* yet.
failed_get_top_gaining_symbols(list, gains) ==
    Selection(<<>>, {}, gains)

-----------------------------------------------------------------------------
(* The breakout checks *)

Check(crossed, refs) == [crossed |-> crossed, refs |-> refs]

\* main.py: compares with the high of the candle fetched in this call.
main_check_cross_above_high(symbol, highs, klines, price) ==
    IF KlinesUnusable(klines) THEN Check(FALSE, highs)
    ELSE IF ~price.ok THEN Check(FALSE, highs)
    ELSE LET prev_high == klines.rows[1].high
         IN  Check(price.value > prev_high /\ prev_high > 0,
                   DictSet(highs, symbol, prev_high))

main_check_cross_below_low_store_first(symbol, lows, klines, price) ==
    IF KlinesUnusable(klines) THEN Check(FALSE, lows)
    ELSE LET prev_low == klines.rows[1].low
         IN  IF ~price.ok THEN Check(FALSE, DictSet(lows, symbol, prev_low))
             ELSE Check(price.value < prev_low /\ prev_low > 0,
                        DictSet(lows, symbol, prev_low))

main_check_cross_below_low(symbol, lows, klines, price) ==
    IF KlinesUnusable(klines) THEN Check(FALSE, lows)
    ELSE IF ~price.ok THEN Check(FALSE, lows)
    ELSE LET prev_low == klines.rows[1].low
         IN  Check(price.value < prev_low /\ prev_low > 0,
                   DictSet(lows, symbol, prev_low))

coin_check_cross_above_high_fresh(symbol, highs, klines, price) ==
    main_check_cross_above_high(symbol, highs, klines, price)

coin_check_cross_above_high_skip_first(symbol, highs, klines, price) ==
    IF KlinesUnusable(klines) THEN Check(FALSE, highs)
    ELSE IF ~price.ok THEN Check(FALSE, highs)
    ELSE LET prev_high == klines.rows[1].high
         IN  Check(symbol \in DOMAIN highs
                     /\ price.value > highs[symbol] /\ highs[symbol] > 0,
                   DictSet(highs, symbol, prev_high))

\* coinselectbot.py: seeds a missing reference, compares with the stored one,
\* then overwrites it.
coin_check_cross_above_high(symbol, highs, klines, price) ==
    IF KlinesUnusable(klines) THEN Check(FALSE, highs)
    ELSE IF ~price.ok THEN Check(FALSE, highs)
    ELSE LET prev_high == klines.rows[1].high
             seeded == IF symbol \in DOMAIN highs THEN highs
                       ELSE DictSet(highs, symbol, prev_high)
         IN  Check(price.value > seeded[symbol] /\ seeded[symbol] > 0,
                   DictSet(seeded, symbol, prev_high))

coin_check_cross_below_low(symbol, lows, klines, price) ==
    IF KlinesUnusable(klines) THEN Check(FALSE, lows)
    ELSE IF ~price.ok THEN Check(FALSE, lows)
    ELSE LET prev_low == klines.rows[1].low
             seeded == IF symbol \in DOMAIN lows THEN lows
                       ELSE DictSet(lows, symbol, prev_low)
         IN  Check(price.value < seeded[symbol] /\ seeded[symbol] > 0,
                   DictSet(seeded, symbol, prev_low))

-----------------------------------------------------------------------------
(* One iteration of the for loop of monitor() *)

\* send_alert(symbol, current_price, reference_price, breakout_type)
Alert(symbol, current_price, reference_price, breakout_type) ==
    [symbol |-> symbol, current_price |-> current_price,
     reference_price |-> reference_price, breakout_type |-> breakout_type]

\* The symbol and the breakout type of each alert of a list.
Sent(list) ==
    [i \in 1..Len(list) |->
        [symbol |-> list[i].symbol, breakout_type |-> list[i].breakout_type]]

\* What an iteration leaves behind: the two dictionaries, alerted_symbols, the
\* alerts it sent, whether each check ran and what it answered.
Iteration(highs, lows, alerted, sent, hres, lcalled, lres) ==
    [highs |-> highs, lows |-> lows, alerted |-> alerted, sent |-> sent,
     hres |-> hres, lcalled |-> lcalled, lres |-> lres]

main_check_symbol_two_ifs(symbol, highs, lows, p0, hk, hp, lk, lp) ==
    IF ~p0.ok THEN Iteration(highs, lows, {}, <<>>, FALSE, FALSE, FALSE)
    ELSE LET h == main_check_cross_above_high(symbol, highs, hk, hp)
             l == main_check_cross_below_low(symbol, lows, lk, lp)
         IN  Iteration(h.refs, l.refs, {},
                 (IF h.crossed
                  THEN <<Alert(symbol, p0.value, h.refs[symbol], "high")>>
                  ELSE <<>>)
                 \o (IF l.crossed
                     THEN <<Alert(symbol, p0.value, l.refs[symbol], "low")>>
                     ELSE <<>>),
                 h.crossed, TRUE, l.crossed)

\* main.py: if check_cross_above_high: alert; elif check_cross_below_low: alert
main_check_symbol(symbol, highs, lows, p0, hk, hp, lk, lp) ==
    IF ~p0.ok THEN Iteration(highs, lows, {}, <<>>, FALSE, FALSE, FALSE)
    ELSE LET h == main_check_cross_above_high(symbol, highs, hk, hp)
         IN  IF h.crossed
             THEN Iteration(h.refs, lows, {},
                            <<Alert(symbol, p0.value, h.refs[symbol], "high")>>,
                            TRUE, FALSE, FALSE)
             ELSE LET l == main_check_cross_below_low(symbol, lows, lk, lp)
                  IN  Iteration(h.refs, l.refs, {},
                          IF l.crossed
                          THEN <<Alert(symbol, p0.value, l.refs[symbol], "low")>>
                          ELSE <<>>,
                          FALSE, TRUE, l.crossed)

\* coinselectbot.py: each branch also asks symbol not in alerted_symbols, and
\* adds the symbol after its alert.
coin_check_symbol(symbol, highs, lows, alerted, p0, hk, hp, lk, lp) ==
    IF ~p0.ok THEN Iteration(highs, lows, alerted, <<>>, FALSE, FALSE, FALSE)
    ELSE LET h == coin_check_cross_above_high(symbol, highs, hk, hp)
         IN  IF h.crossed /\ symbol \notin alerted
             THEN Iteration(h.refs, lows, alerted \cup {symbol},
                            <<Alert(symbol, p0.value, h.refs[symbol], "high")>>,
                            TRUE, FALSE, FALSE)
             ELSE LET l == coin_check_cross_below_low(symbol, lows, lk, lp)
                  IN  IF l.crossed /\ symbol \notin alerted
                      THEN Iteration(h.refs, l.refs, alerted \cup {symbol},
                               <<Alert(symbol, p0.value, l.refs[symbol], "low")>>,
                               h.crossed, TRUE, TRUE)
                      ELSE Iteration(h.refs, l.refs, alerted, <<>>,
                                     h.crossed, TRUE, l.crossed)

-----------------------------------------------------------------------------
(* The monitor loop *)

\* The refresh block of a cycle: whether get_top_gaining_symbols was called,
\* whether its ticker request failed, whether the clock read minute 0, and
\* whether the watchlist was non-empty before.
Refreshing(attempted, failed, minute0, had_watchlist) ==
    [attempted |-> attempted, failed |-> failed, minute0 |-> minute0,
     had_watchlist |-> had_watchlist]

NotRefreshing == Refreshing(FALSE, FALSE, FALSE, FALSE)

NoEval ==
    [symbol |-> "", evaluated |-> FALSE,
     p0 |-> NoPrice, hk |-> NoKlines, hp |-> NoPrice,
     lk |-> NoKlines, lp |-> NoPrice,
     hfirst |-> FALSE, lfirst |-> FALSE, hres |-> FALSE, lcalled |-> FALSE,
     lres |-> FALSE, lwould |-> FALSE, sent |-> <<>>]

\* A response is drawn only for a request the iteration can make: no price,
\* no checks; no usable klines, no price request inside that check.
Requested(p0, hk, hp, lk, lp) ==
    /\ ~p0.ok => hk = NoKlines /\ lk = NoKlines
    /\ KlinesUnusable(hk) => hp = NoPrice
    /\ KlinesUnusable(lk) => lp = NoPrice

EvalOf(symbol, p0, hk, hp, lk, lp, it, lwould) ==
    [symbol |-> symbol, evaluated |-> p0.ok,
     p0 |-> p0, hk |-> hk, hp |-> hp, lk |-> lk, lp |-> lp,
     hfirst |-> p0.ok /\ symbol \notin DOMAIN previous_highs,
     lfirst |-> p0.ok /\ symbol \notin DOMAIN previous_lows,
     hres |-> it.hres, lcalled |-> it.lcalled, lres |-> it.lres,
     lwould |-> p0.ok /\ lwould, sent |-> it.sent]

IdleSelect ==
    /\ data = <<>>
    /\ limits = <<0, 0, 0>>
    /\ final_list = <<>>
    /\ tier_counts = <<0, 0, 0>>

IdleCutoff ==
    /\ total = 0
    /\ cutoffs = <<0, 0>>

IdleMonitor ==
    /\ program = "none"
    /\ symbols = <<>>
    /\ previous_highs = EmptyDict
    /\ previous_lows = EmptyDict
    /\ alerted_symbols = {}
    /\ pc = "idle"
    /\ idx = 1
    /\ alerts = <<>>
    /\ lastEval = NoEval
    /\ refreshing = NotRefreshing

NoQuery == [asked |-> FALSE, symbol |-> "", result |-> FALSE]

IdlePersist ==
    /\ now = 0
    /\ symbol_entry_times = EmptyDict
    /\ persistent_symbols = {}
    /\ on_since = EmptyDict
    /\ queried = NoQuery
    /\ advances = 0

\* No call of score() yet.
NotScored ==
    [called |-> FALSE, symbol |-> "", first |-> FALSE, candles |-> <<>>,
     openInterest |-> 0, fundingRatePct |-> 0, previous |-> 0,
     checks |-> <<FALSE, FALSE, FALSE, FALSE>>, found |-> FALSE,
     oiChangePct |-> 0]

IdleScore ==
    /\ previousOpenInterest = EmptyDict
    /\ scored = NotScored

\* The record of a cycle that has done nothing yet.
NewCycle ==
    [due |-> FALSE, refreshed |-> FALSE, ticker_failed |-> FALSE,
     attempted |-> 0, failed_at |-> 0, deliveries |-> <<>>,
     slept_after_failure |-> FALSE]

IdleLoop ==
    /\ clock = 0
    /\ hour_crossed = FALSE
    /\ check_interval = 0
    /\ credentials = FALSE
    /\ cycle = NewCycle
    /\ alerted_since_refresh = EmptyDict
    /\ this_hour = "started"

\* __init__ of either program, before monitor() starts.
Init ==
    /\ program \in {"main", "coin"}
    /\ symbols = <<>>
    /\ symbols_24h_gain = EmptyDict
    /\ previous_highs = EmptyDict
    /\ previous_lows = EmptyDict
    /\ alerted_symbols = {}
    /\ pc = "start"
    /\ idx = 1
    /\ alerts = <<>>
    /\ lastEval = NoEval
    /\ refreshing = NotRefreshing
    /\ sel_pc = "idle"
    /\ IdleSelect
    /\ IdleCutoff
    /\ IdlePersist
    /\ IdleLoop
    /\ IdleScore

\* main.py, top of the while loop: refresh when the watchlist is empty or the
\* clock reads minute 0, then enter the for loop only if the clock (read
\* again) reads minute 0.
MainCycleStart ==
    /\ program = "main"
    /\ pc = "start"
    /\ \E minute0_refresh \in BOOLEAN, minute0_check \in BOOLEAN,
          resp \in TickerResponses :
          LET refresh == symbols = <<>> \/ minute0_refresh
              sel == IF resp.ok
                     THEN get_top_gaining_symbols(resp.data, symbols_24h_gain,
                              <<top_gainers_limit, mid_cap_limit, low_cap_limit>>)
                     ELSE failed_get_top_gaining_symbols(symbols, symbols_24h_gain)
              watch == IF refresh THEN sel.final_list ELSE symbols
              times == IF refresh
                       THEN record_entry_times(symbol_entry_times, watch, now)
                       ELSE symbol_entry_times
          IN  /\ symbols' = watch
              /\ symbols_24h_gain' =
                     IF refresh THEN sel.symbols_24h_gain ELSE symbols_24h_gain
              /\ symbol_entry_times' = times
              /\ persistent_symbols' =
                     IF refresh
                     THEN newly_persistent(persistent_symbols, times, watch, now)
                     ELSE persistent_symbols
              /\ refreshing' = Refreshing(refresh, refresh /\ ~resp.ok,
                                          minute0_refresh, symbols # <<>>)
              /\ pc' = IF minute0_check /\ watch # <<>> THEN "check" ELSE "sleep"
    /\ idx' = 1
    /\ UNCHANGED <<program, previous_highs, previous_lows, alerted_symbols,
                   alerts, lastEval, sel_pc, selectVars, cutoffVars,
                   now, on_since, queried, advances, loopVars, scoreVars>>

\* coinselectbot.py, top of the while loop: the same refresh, which also
\* clears alerted_symbols; the for loop runs in every cycle.
CoinCycleStart ==
    /\ program = "coin"
    /\ pc = "start"
    /\ \E minute0_refresh \in BOOLEAN, resp \in TickerResponses :
          LET refresh == symbols = <<>> \/ minute0_refresh
              sel == IF resp.ok
                     THEN coin_get_top_gaining_symbols(resp.data, symbols_24h_gain)
                     ELSE failed_get_top_gaining_symbols(symbols, symbols_24h_gain)
              watch == IF refresh THEN sel.final_list ELSE symbols
              times == IF refresh
                       THEN record_entry_times(symbol_entry_times, watch, now)
                       ELSE symbol_entry_times
          IN  /\ symbols' = watch
              /\ symbols_24h_gain' =
                     IF refresh THEN sel.symbols_24h_gain ELSE symbols_24h_gain
              /\ symbol_entry_times' = times
              /\ persistent_symbols' =
                     IF refresh
                     THEN newly_persistent(persistent_symbols, times, watch, now)
                     ELSE persistent_symbols
              /\ alerted_symbols' = IF refresh THEN {} ELSE alerted_symbols
              /\ refreshing' = Refreshing(refresh, refresh /\ ~resp.ok,
                                          minute0_refresh, symbols # <<>>)
              /\ pc' = IF watch # <<>> THEN "check" ELSE "sleep"
    /\ idx' = 1
    /\ UNCHANGED <<program, previous_highs, previous_lows,
                   alerts, lastEval, sel_pc, selectVars, cutoffVars,
                   now, on_since, queried, advances, loopVars, scoreVars>>

\* main.py, one iteration of for symbol in self.symbols.
MainCheckSymbol ==
    /\ program = "main"
    /\ pc = "check"
    /\ \E p0 \in PriceResponses, hk \in KlinesResponses, hp \in PriceResponses,
          lk \in KlinesResponses, lp \in PriceResponses :
          /\ Requested(p0, hk, hp, lk, lp)
          /\ LET symbol == symbols[idx]
                 it == main_check_symbol(symbol, previous_highs, previous_lows,
                                         p0, hk, hp, lk, lp)
                 lwould == main_check_cross_below_low(symbol, previous_lows,
                                                      lk, lp).crossed
             IN  /\ previous_highs' = it.highs
                 /\ previous_lows' = it.lows
                 /\ alerts' = alerts \o Sent(it.sent)
                 /\ lastEval' = EvalOf(symbol, p0, hk, hp, lk, lp, it, lwould)
    /\ refreshing' = NotRefreshing
    /\ pc' = "checked"
    /\ UNCHANGED <<program, symbols, symbols_24h_gain, alerted_symbols, idx,
                   sel_pc, selectVars, cutoffVars, persistVars, loopVars,
                   scoreVars>>

\* coinselectbot.py, one iteration of for symbol in self.symbols.
CoinCheckSymbol ==
    /\ program = "coin"
    /\ pc = "check"
    /\ \E p0 \in PriceResponses, hk \in KlinesResponses, hp \in PriceResponses,
          lk \in KlinesResponses, lp \in PriceResponses :
          /\ Requested(p0, hk, hp, lk, lp)
          /\ LET symbol == symbols[idx]
                 it == coin_check_symbol(symbol, previous_highs, previous_lows,
                                         alerted_symbols, p0, hk, hp, lk, lp)
                 lwould == coin_check_cross_below_low(symbol, previous_lows,
                                                      lk, lp).crossed
             IN  /\ previous_highs' = it.highs
                 /\ previous_lows' = it.lows
                 /\ alerted_symbols' = it.alerted
                 /\ alerts' = alerts \o Sent(it.sent)
                 /\ lastEval' = EvalOf(symbol, p0, hk, hp, lk, lp, it, lwould)
    /\ refreshing' = NotRefreshing
    /\ pc' = "checked"
    /\ UNCHANGED <<program, symbols, symbols_24h_gain, idx,
                   sel_pc, selectVars, cutoffVars, persistVars, loopVars,
                   scoreVars>>

\* The for loop takes the next symbol, or ends when there is none.
NextSymbol ==
    /\ pc = "checked"
    /\ idx' = idx + 1
    /\ pc' = IF idx = Len(symbols) THEN "sleep" ELSE "check"
    /\ lastEval' = NoEval
    /\ UNCHANGED <<program, symbols, symbols_24h_gain, previous_highs,
                   previous_lows, alerted_symbols, alerts, refreshing,
                   sel_pc, selectVars, cutoffVars, persistVars, loopVars,
                   scoreVars>>

\* time.sleep(check_interval), then the next pass of while True.
Sleep ==
    /\ pc = "sleep"
    /\ pc' = "start"
    /\ alerts' = <<>>
    /\ UNCHANGED <<program, symbols, symbols_24h_gain, previous_highs,
                   previous_lows, alerted_symbols, idx, lastEval, refreshing,
                   sel_pc, selectVars, cutoffVars, persistVars, loopVars,
                   scoreVars>>

Next ==
    \/ MainCycleStart
    \/ CoinCycleStart
    \/ MainCheckSymbol
    \/ CoinCheckSymbol
    \/ NextSymbol
    \/ Sleep

Spec == Init /\ [][Next]_vars

\* monitor() of main.py alone.
InitMain == Init /\ program = "main"

NextMain ==
    \/ MainCycleStart
    \/ MainCheckSymbol
    \/ NextSymbol
    \/ Sleep

SpecMain == InitMain /\ [][NextMain]_vars

\* monitor() of coinselectbot.py alone.
InitCoin == Init /\ program = "coin"

NextCoin ==
    \/ CoinCycleStart
    \/ CoinCheckSymbol
    \/ NextSymbol
    \/ Sleep

SpecCoin == InitCoin /\ [][NextCoin]_vars

-----------------------------------------------------------------------------
(* get_top_gaining_symbols of main.py on its own *)

LimitTriples == { <<a, b, c>> : a \in 0..MaxLimit, b \in 0..MaxLimit, c \in 0..MaxLimit }

InitSelect ==
    /\ data \in Snapshots
    /\ limits \in LimitTriples
    /\ final_list = <<>>
    /\ tier_counts = <<0, 0, 0>>
    /\ symbols_24h_gain = EmptyDict
    /\ sel_pc = "input"
    /\ IdleMonitor
    /\ IdleCutoff
    /\ IdlePersist
    /\ IdleLoop
    /\ IdleScore

\* One call on a fresh object whose ticker request succeeded.
Select ==
    /\ sel_pc = "input"
    /\ LET pairs == usdt_pairs(data)
           sel == get_top_gaining_symbols(data, symbols_24h_gain, limits)
           large == AfterLargeLoop(pairs, symbols_24h_gain, limits)
           nLarge == Len(large.final_list)
           nMid == Len(TierLoop(sorted_by_gain(pairs), mid_cap_list(pairs),
                                large, limits).final_list)
       IN  /\ final_list' = sel.final_list
           /\ symbols_24h_gain' = sel.symbols_24h_gain
           /\ tier_counts' =
                  IF pairs = <<>> THEN <<0, 0, 0>>
                  ELSE <<nLarge, nMid - nLarge, Len(sel.final_list) - nMid>>
    /\ sel_pc' = "done"
    /\ UNCHANGED <<monitorVars, data, limits, cutoffVars, persistVars, loopVars, scoreVars>>

NextSelect == Select

SpecSelect == InitSelect /\ [][NextSelect]_vars

-----------------------------------------------------------------------------
(* The tier cutoffs on their own *)

InitCutoff ==
    /\ total \in 0..MaxTotal
    /\ cutoffs = <<0, 0>>
    /\ sel_pc = "input"
    /\ symbols_24h_gain = EmptyDict
    /\ IdleMonitor
    /\ IdleSelect
    /\ IdlePersist
    /\ IdleLoop
    /\ IdleScore

\* total = len(sorted_by_volume); if total == 0: return []; the two cutoffs.
ComputeCutoffs ==
    /\ sel_pc = "input"
    /\ cutoffs' = IF total = 0 THEN <<0, 0>>
                  ELSE <<large_cap_cutoff(total),
                         mid_cap_cutoff(large_cap_cutoff(total), total)>>
    /\ sel_pc' = "done"
    /\ UNCHANGED <<monitorVars, symbols_24h_gain, selectVars, total, persistVars, loopVars, scoreVars>>

NextCutoff == ComputeCutoffs

SpecCutoff == InitCutoff /\ [][NextCutoff]_vars

-----------------------------------------------------------------------------
(* Watchlist refreshes over time: first-seen times and persistence *)

\* The clock advances by one second or by one second less than the threshold.
ClockSteps == {1, persistence_threshold - 1}

\* Either program after __init__; monitor() is about to run its first cycle.
InitPersist ==
    /\ program \in {"main", "coin"}
    /\ symbols = <<>>
    /\ symbols_24h_gain = EmptyDict
    /\ previous_highs = EmptyDict
    /\ previous_lows = EmptyDict
    /\ alerted_symbols = {}
    /\ pc = "idle"
    /\ idx = 1
    /\ alerts = <<>>
    /\ lastEval = NoEval
    /\ refreshing = NotRefreshing
    /\ sel_pc = "idle"
    /\ IdleSelect
    /\ IdleCutoff
    /\ IdlePersist
    /\ IdleLoop
    /\ IdleScore

\* The refresh block of monitor(): self.symbols = self.get_top_gaining_symbols(),
\* which records the first-seen time of every symbol it selects (and returns []
\* when the ticker request fails), then the newly persistent symbols are logged.
Refresh ==
    /\ pc = "idle"
    /\ \E resp \in TickerResponses :
          LET sel == IF ~resp.ok
                     THEN failed_get_top_gaining_symbols(symbols, symbols_24h_gain)
                     ELSE IF program = "main"
                     THEN get_top_gaining_symbols(resp.data, symbols_24h_gain,
                              <<top_gainers_limit, mid_cap_limit, low_cap_limit>>)
                     ELSE coin_get_top_gaining_symbols(resp.data, symbols_24h_gain)
              times == record_entry_times(symbol_entry_times, sel.final_list, now)
          IN  /\ symbols' = sel.final_list
              /\ symbols_24h_gain' = sel.symbols_24h_gain
              /\ symbol_entry_times' = times
              /\ persistent_symbols' =
                     newly_persistent(persistent_symbols, times, sel.final_list, now)
              /\ on_since' =
                     [s \in SymbolsOf(sel.final_list) |->
                         IF s \in SymbolsOf(symbols) THEN on_since[s] ELSE now]
    /\ queried' = NoQuery
    /\ UNCHANGED <<program, previous_highs, previous_lows, alerted_symbols, pc,
                   idx, alerts, lastEval, refreshing, sel_pc, selectVars, cutoffVars,
                   now, advances, loopVars,
                   scoreVars>>

\* Time passes between two calls (time.sleep, or the requests of a cycle).
Advance ==
    /\ pc = "idle"
    /\ advances < MaxAdvances
    /\ \E d \in ClockSteps : now' = now + d
    /\ advances' = advances + 1
    /\ queried' = NoQuery
    /\ UNCHANGED <<monitorVars, symbols_24h_gain, sel_pc, selectVars, cutoffVars,
                   symbol_entry_times, persistent_symbols, on_since, loopVars,
                   scoreVars>>

\* is_persistent_symbol(symbol) is called (send_alert does, for the symbol it
\* alerts on).
AskPersistent ==
    /\ pc = "idle"
    /\ \E s \in USDTSymbols :
          queried' = [asked |-> TRUE, symbol |-> s,
                      result |-> is_persistent_symbol(symbol_entry_times, s, now)]
    /\ UNCHANGED <<monitorVars, symbols_24h_gain, sel_pc, selectVars, cutoffVars,
                   now, symbol_entry_times, persistent_symbols, on_since, advances,
                   loopVars,
                   scoreVars>>

NextPersist ==
    \/ Refresh
    \/ Advance
    \/ AskPersistent

SpecPersist == InitPersist /\ [][NextPersist]_vars

-----------------------------------------------------------------------------
(* The monitor loop with its clock, its failures and the delivery of alerts *)

SecondsPerHour == 60 * 60

\* datetime.now().minute
minute(c) == (c \div 60) % 60

\* A request, or a whole refresh, takes no noticeable time or five minutes.
Durations == {0, 5 * 60}

\* check_interval: the default of monitor(), and the value coinselectbot.py
\* passes.
Intervals == {300, 900}

\* The times of the hour at which the process may start.
StartTimes == { 300 * k : k \in 0..11 }

\* What a breakout check of the loop does, seen from the loop: it answers
\* True ("cross"), it answers False after comparing the price with its
\* reference ("none"), it answers False because it got no usable klines or no
\* price ("unusable"), or it raises, as float(klines[0][2]) does on a
\* malformed row ("raise"). Spec, SpecMain and SpecCoin model how the answer
\* comes from the responses and the stored references; the loop only branches
\* on it.
CheckAnswers == {"cross", "none", "unusable", "raise"}

\* What requests.post and raise_for_status do when the credentials are set.
DeliveryOutcomes == {"ok", "http_error", "exception"}

Returned(result, raised) == [result |-> result, raised |-> raised]

send_telegram_alert_raising(configured, outcome) ==
    IF ~configured THEN Returned(FALSE, FALSE)
    ELSE IF outcome = "ok" THEN Returned(TRUE, FALSE)
    ELSE Returned(FALSE, TRUE)

\* send_telegram_alert: False without credentials; True after a successful
\* post; False when post or raise_for_status raises (caught and logged).
send_telegram_alert(configured, outcome) ==
    IF ~configured THEN Returned(FALSE, FALSE)
    ELSE IF outcome = "ok" THEN Returned(TRUE, FALSE)
    ELSE Returned(FALSE, FALSE)

\* What one iteration of the for loop leaves behind: the alerts it asked
\* send_alert for, alerted_symbols, whether an exception ended it, and whether
\* it failed to compare a price with a reference.
Iterated(sent, alerted, raised, failed) ==
    [sent |-> sent, alerted |-> alerted, raised |-> raised, failed |-> failed]

Breakout(symbol, breakout_type) ==
    <<[symbol |-> symbol, breakout_type |-> breakout_type]>>

loop_iteration_repeat_alerts(prog, symbol, alerted, price_ok, high, low) ==
    IF ~price_ok THEN Iterated(<<>>, alerted, FALSE, TRUE)
    ELSE IF high = "raise" THEN Iterated(<<>>, alerted, TRUE, TRUE)
    ELSE IF high = "cross"
    THEN Iterated(Breakout(symbol, "high"),
                  IF prog = "coin" THEN alerted \cup {symbol} ELSE alerted,
                  FALSE, FALSE)
    ELSE IF low = "raise" THEN Iterated(<<>>, alerted, TRUE, TRUE)
    ELSE IF low = "cross"
    THEN Iterated(Breakout(symbol, "low"),
                  IF prog = "coin" THEN alerted \cup {symbol} ELSE alerted,
                  FALSE, high = "unusable")
    ELSE Iterated(<<>>, alerted, FALSE, high = "unusable" \/ low = "unusable")

\* The body of the try of one iteration, up to the call of send_alert:
\*   current_price = self.get_current_price(symbol)
\*   if current_price is None: continue
\*   if self.check_cross_above_high(symbol) [and symbol not in alerted_symbols]:
\*       send_alert(.., 'high') [; alerted_symbols.add(symbol)]
\*   elif self.check_cross_below_low(symbol) [and symbol not in alerted_symbols]:
\*       send_alert(.., 'low') [; alerted_symbols.add(symbol)]
\* with the bracketed parts in coinselectbot.py only.
loop_iteration(prog, symbol, alerted, price_ok, high, low) ==
    LET free == prog = "main" \/ symbol \notin alerted
    IN  IF ~price_ok THEN Iterated(<<>>, alerted, FALSE, TRUE)
        ELSE IF high = "raise" THEN Iterated(<<>>, alerted, TRUE, TRUE)
        ELSE IF high = "cross" /\ free
        THEN Iterated(Breakout(symbol, "high"),
                      IF prog = "coin" THEN alerted \cup {symbol} ELSE alerted,
                      FALSE, FALSE)
        ELSE IF low = "raise" THEN Iterated(<<>>, alerted, TRUE, TRUE)
        ELSE IF low = "cross" /\ free
        THEN Iterated(Breakout(symbol, "low"),
                      IF prog = "coin" THEN alerted \cup {symbol} ELSE alerted,
                      FALSE, high = "unusable")
        ELSE Iterated(<<>>, alerted, FALSE,
                      high = "unusable" \/ low = "unusable")

after_iteration_abort(failed, i, n) ==
    IF failed \/ i >= n THEN "sleep" ELSE "check"

\* except Exception inside the for loop: whatever the iteration did, the loop
\* goes on with the next symbol, and leaves after the last one.
after_iteration(failed, i, n) ==
    IF i >= n THEN "sleep" ELSE "check"

\* One delivery attempt of send_alert.
Delivery(symbol, configured, outcome, ret) ==
    [symbol |-> symbol,
     outcome |-> IF configured THEN outcome ELSE "no_credentials",
     result |-> ret.result, raised |-> ret.raised]

Deliveries(sent, configured, outcome, ret) ==
    [i \in 1..Len(sent) |-> Delivery(sent[i].symbol, configured, outcome, ret)]

\* Alerts per symbol, counted up to two.
Counted(counts, sent) ==
    [s \in (DOMAIN counts) \cup { sent[i].symbol : i \in 1..Len(sent) } |->
        Min(2, (IF s \in DOMAIN counts THEN counts[s] ELSE 0)
               + Cardinality({ i \in 1..Len(sent) : sent[i].symbol = s }))]

\* The present clock hour, as far as the breakout evaluation goes: "started"
\* is the hour in which the process started, "open" an hour that began since
\* and in which no cycle has read the clock yet, "evaluated" an hour in which
\* a cycle entered the for loop, "missed" an hour in which a cycle read a
\* minute other than 0 before any entered it (no later cycle of that hour
\* reads minute 0). hour_passing: time.sleep or a request carries the clock
\* over an hour boundary.
hour_passing(hour, seconds) ==
    IF seconds >= SecondsPerHour THEN "open" ELSE hour

\* hour_read: the cycle reads the clock and enters the for loop or not
\* (main.py: if datetime.now().minute == 0; coinselectbot.py: always).
hour_read(hour, enter) ==
    IF enter THEN "evaluated"
    ELSE IF hour = "open" THEN "missed"
    ELSE hour

\* Either program after __init__, started at any time of the hour.
InitLoop ==
    /\ program \in {"main", "coin"}
    /\ symbols = <<>>
    /\ symbols_24h_gain = EmptyDict
    /\ previous_highs = EmptyDict
    /\ previous_lows = EmptyDict
    /\ alerted_symbols = {}
    /\ pc = "start"
    /\ idx = 1
    /\ alerts = <<>>
    /\ lastEval = NoEval
    /\ refreshing = NotRefreshing
    /\ sel_pc = "idle"
    /\ IdleSelect
    /\ IdleCutoff
    /\ IdlePersist
    /\ clock \in StartTimes
    /\ hour_crossed = FALSE
    /\ check_interval \in Intervals
    /\ credentials \in BOOLEAN
    /\ cycle = NewCycle
    /\ alerted_since_refresh = EmptyDict
    /\ this_hour = "started"
    /\ IdleScore

\* An exception escapes the cycle body before the refresh: the outer handler
\* takes over.
CycleRaises ==
    /\ pc = "start"
    /\ pc' = "failed"
    /\ cycle' = [NewCycle EXCEPT !.due = (symbols = <<>> \/ hour_crossed)]
    /\ hour_crossed' = FALSE
    /\ UNCHANGED <<program, symbols, symbols_24h_gain, previous_highs,
                   previous_lows, alerted_symbols, idx, alerts, lastEval, refreshing,
                   sel_pc, selectVars, cutoffVars, persistVars,
                   clock, check_interval, credentials, alerted_since_refresh,
                   this_hour, scoreVars>>

\* The top of the while loop: the watchlist is refreshed when it is empty or
\* the clock reads minute 0 (coinselectbot.py also clears alerted_symbols);
\* main.py then reads the clock again and enters the for loop only at minute 0.
LoopCycleStart ==
    /\ pc = "start"
    /\ \E resp \in TickerResponses, took \in Durations :
          LET refresh == symbols = <<>> \/ minute(clock) = 0
              sel == IF ~resp.ok
                     THEN failed_get_top_gaining_symbols(symbols, symbols_24h_gain)
                     ELSE IF program = "main"
                     THEN get_top_gaining_symbols(resp.data, symbols_24h_gain,
                              <<top_gainers_limit, mid_cap_limit, low_cap_limit>>)
                     ELSE coin_get_top_gaining_symbols(resp.data, symbols_24h_gain)
              watch == IF refresh THEN sel.final_list ELSE symbols
              after == IF refresh THEN clock + took ELSE clock
              enter == program = "coin" \/ minute(after % SecondsPerHour) = 0
          IN  /\ ~refresh => (resp = TickerError /\ took = 0)
              /\ symbols' = watch
              /\ symbols_24h_gain' =
                     IF refresh THEN sel.symbols_24h_gain ELSE symbols_24h_gain
              /\ alerted_symbols' =
                     IF refresh /\ program = "coin" THEN {} ELSE alerted_symbols
              /\ alerted_since_refresh' =
                     IF refresh THEN EmptyDict ELSE alerted_since_refresh
              /\ clock' = after % SecondsPerHour
              /\ hour_crossed' = (after >= SecondsPerHour)
              /\ this_hour' = hour_read(hour_passing(this_hour, after), enter)
              /\ cycle' = [NewCycle EXCEPT
                              !.due = (symbols = <<>> \/ hour_crossed),
                              !.refreshed = refresh,
                              !.ticker_failed = (refresh /\ ~resp.ok)]
              /\ pc' = IF enter /\ watch # <<>> THEN "check" ELSE "sleep"
    /\ idx' = 1
    /\ UNCHANGED <<program, previous_highs, previous_lows, alerts, lastEval, refreshing,
                   sel_pc, selectVars, cutoffVars, persistVars,
                   check_interval, credentials,
                   scoreVars>>

\* One iteration of for symbol in self.symbols, with its try and except. An
\* exception raised by send_alert leaves the iteration before
\* alerted_symbols.add.
LoopCheckSymbol ==
    /\ pc = "check"
    /\ \E price_ok \in BOOLEAN, high \in CheckAnswers, low \in CheckAnswers,
          outcome \in DeliveryOutcomes, took \in Durations :
          /\ LET symbol == symbols[idx]
                 it == loop_iteration(program, symbol, alerted_symbols,
                                      price_ok, high, low)
                 ret == send_telegram_alert(credentials, outcome)
                 sends == it.sent # <<>>
                 raised == it.raised \/ (sends /\ ret.raised)
             IN  /\ ~sends => outcome = "ok"
                 /\ ~price_ok => (high = "none" /\ low = "none")
                 /\ (high = "raise" \/ (high = "cross" /\ sends)) => low = "none"
                 /\ alerted_symbols' =
                        IF sends /\ ret.raised THEN alerted_symbols ELSE it.alerted
                 /\ alerted_since_refresh' =
                        Counted(alerted_since_refresh, it.sent)
                 /\ cycle' = [cycle EXCEPT
                        !.attempted = @ + 1,
                        !.failed_at = IF @ = 0 /\ (it.failed \/ raised)
                                      THEN idx ELSE @,
                        !.deliveries = @ \o Deliveries(it.sent, credentials,
                                                       outcome, ret)]
                 /\ pc' = after_iteration(it.failed \/ raised, idx, Len(symbols))
          /\ clock' = (clock + took) % SecondsPerHour
          /\ hour_crossed' = (hour_crossed \/ clock + took >= SecondsPerHour)
          /\ this_hour' = hour_passing(this_hour, clock + took)
    /\ idx' = idx + 1
    /\ UNCHANGED <<program, symbols, symbols_24h_gain, previous_highs,
                   previous_lows, alerts, lastEval, refreshing,
                   sel_pc, selectVars, cutoffVars, persistVars,
                   check_interval, credentials,
                   scoreVars>>

\* time.sleep(check_interval) at the end of the try, then the next cycle.
LoopSleep ==
    /\ pc = "sleep"
    /\ pc' = "start"
    /\ clock' = (clock + check_interval) % SecondsPerHour
    /\ hour_crossed' = (hour_crossed \/ clock + check_interval >= SecondsPerHour)
    /\ this_hour' = hour_passing(this_hour, clock + check_interval)
    /\ cycle' = NewCycle
    /\ UNCHANGED <<program, symbols, symbols_24h_gain, previous_highs,
                   previous_lows, alerted_symbols, idx, alerts, lastEval, refreshing,
                   sel_pc, selectVars, cutoffVars, persistVars,
                   check_interval, credentials, alerted_since_refresh,
                   scoreVars>>

ExitAfterError ==
    /\ pc = "failed"
    /\ pc' = "stopped"
    /\ UNCHANGED <<program, symbols, symbols_24h_gain, previous_highs,
                   previous_lows, alerted_symbols, idx, alerts, lastEval, refreshing,
                   sel_pc, selectVars, cutoffVars, persistVars, loopVars,
                   scoreVars>>

\* except Exception of the while loop: log, time.sleep(check_interval), then
\* the next cycle.
SleepAfterError ==
    /\ pc = "failed"
    /\ pc' = "start"
    /\ clock' = (clock + check_interval) % SecondsPerHour
    /\ hour_crossed' = (hour_crossed \/ clock + check_interval >= SecondsPerHour)
    /\ this_hour' = hour_passing(this_hour, clock + check_interval)
    /\ cycle' = [NewCycle EXCEPT !.slept_after_failure = TRUE]
    /\ UNCHANGED <<program, symbols, symbols_24h_gain, previous_highs,
                   previous_lows, alerted_symbols, idx, alerts, lastEval, refreshing,
                   sel_pc, selectVars, cutoffVars, persistVars,
                   check_interval, credentials, alerted_since_refresh,
                   scoreVars>>

NextLoop ==
    \/ CycleRaises
    \/ LoopCycleStart
    \/ LoopCheckSymbol
    \/ LoopSleep
    \/ SleepAfterError

SpecLoop == InitLoop /\ [][NextLoop]_vars

\* monitor() of main.py as __main__ runs it, check_interval = 300, started at
\* any minute of the hour.
StartMinutes == { 60 * k : k \in 0..59 }

InitHour ==
    /\ program = "main"
    /\ symbols = <<>>
    /\ symbols_24h_gain = EmptyDict
    /\ previous_highs = EmptyDict
    /\ previous_lows = EmptyDict
    /\ alerted_symbols = {}
    /\ pc = "start"
    /\ idx = 1
    /\ alerts = <<>>
    /\ lastEval = NoEval
    /\ refreshing = NotRefreshing
    /\ sel_pc = "idle"
    /\ IdleSelect
    /\ IdleCutoff
    /\ IdlePersist
    /\ clock \in StartMinutes
    /\ hour_crossed = FALSE
    /\ check_interval = 5 * 60
    /\ credentials \in BOOLEAN
    /\ cycle = NewCycle
    /\ alerted_since_refresh = EmptyDict
    /\ this_hour = "started"
    /\ IdleScore

SpecHour == InitHour /\ [][NextLoop]_vars

\* monitor() is the only thread of its process: a step it can take (a
\* request answers within its timeout, time.sleep returns) is taken.
SpecLoopFair == SpecLoop /\ WF_vars(NextLoop)

-----------------------------------------------------------------------------
(* The setup scorer (spec section 4.3; no source file holds it) *)

Abs(x) == IF x < 0 THEN 0 - x ELSE x

RECURSIVE SumRanges(_, _)
\* The sum of high - low over the first n candles.
SumRanges(candles, n) ==
    IF n = 0 THEN 0
    ELSE SumRanges(candles, n - 1) + (candles[n].high - candles[n].low)

\* Check 1 on the most recent 7 candles: avgRange, the mean range of the
\* first 6, is positive, and the range of the 7th is at most 0.30 * avgRange.
volatility_compressed(candles) ==
    LET recent == SubSeq(candles, Len(candles) - 6, Len(candles))
        total6 == SumRanges(recent, 6)
        currentRange == recent[7].high - recent[7].low
    IN  total6 > 0 /\ 6 * 100 * currentRange <= 30 * total6

\* Check 2: |close[-1] - close[-2]| / close[-2] <= 0.01
price_stable(candles) ==
    LET last == candles[Len(candles)].close
        before == candles[Len(candles) - 1].close
    IN  before > 0 /\ 100 * Abs(last - before) <= before

\* Check 3: the open interest has risen by at least 15% of the stored value.
open_interest_surged(previous, current) ==
    previous > 0 /\ 100 * (current - previous) >= 15 * previous

\* Check 4: |fundingRatePct| >= 0.10, the rate counted in hundredths of a
\* percent.
funding_extreme(funding) == Abs(funding) >= 10

Scored(found, oiChangePct, previous, checks) ==
    [found |-> found, oiChangePct |-> oiChangePct, previous |-> previous,
     checks |-> checks]

score_without_funding(previous, symbol, candles, openInterest, funding) ==
    LET stored == IF symbol \in DOMAIN previous THEN previous[symbol]
                  ELSE openInterest
        checks == <<volatility_compressed(candles), price_stable(candles),
                    open_interest_surged(stored, openInterest),
                    funding_extreme(funding)>>
    IN  Scored(checks[1] /\ checks[2] /\ checks[3],
               IF stored > 0 THEN (100 * (openInterest - stored)) \div stored ELSE 0,
               DictSet(previous, symbol, openInterest), checks)

score_returning_early(previous, symbol, candles, openInterest, funding) ==
    LET stored == IF symbol \in DOMAIN previous THEN previous[symbol]
                  ELSE openInterest
        checks == <<volatility_compressed(candles), price_stable(candles),
                    open_interest_surged(stored, openInterest),
                    funding_extreme(funding)>>
    IN  IF ~checks[1]
        THEN Scored(FALSE, 0, previous, checks)
        ELSE Scored(checks[1] /\ checks[2] /\ checks[3] /\ checks[4],
                    IF stored > 0 THEN (100 * (openInterest - stored)) \div stored
                    ELSE 0,
                    DictSet(previous, symbol, openInterest), checks)

\* score(symbol, recentCandles, currentOpenInterest, currentFundingRatePct):
\* the stored open interest defaults to the current reading, the four checks
\* are taken, metrics are returned when all four hold, and the stored open
\* interest becomes the current reading whatever the checks said.
score(previous, symbol, candles, openInterest, funding) ==
    LET stored == IF symbol \in DOMAIN previous THEN previous[symbol]
                  ELSE openInterest
        checks == <<volatility_compressed(candles), price_stable(candles),
                    open_interest_surged(stored, openInterest),
                    funding_extreme(funding)>>
    IN  Scored(checks[1] /\ checks[2] /\ checks[3] /\ checks[4],
               IF stored > 0 THEN (100 * (openInterest - stored)) \div stored ELSE 0,
               DictSet(previous, symbol, openInterest), checks)

\* Candles of the six hours before the last one: no range, or a range of 10.
HistoryCandles ==
    { [high |-> 100, low |-> 100, close |-> 100],
      [high |-> 110, low |-> 100, close |-> 100] }

\* The last candle: its range is 30% or 40% of 10, its close 1% or 2% above
\* the close before.
LastCandles ==
    { [high |-> 100 + r, low |-> 100, close |-> c] : r \in {3, 4}, c \in {101, 102} }

CandleWindows ==
    { [i \in 1..7 |-> IF i < 7 THEN h ELSE l] : h \in HistoryCandles, l \in LastCandles }

\* Open interest readings: 115 is 15% above 100, 114 is not.
OpenInterestReadings == {100, 114, 115}

\* Funding rates in hundredths of a percent.
FundingRates == {0 - 10, 0 - 9, 9, 10}

ScoredSymbols == {"AUSDT", "BUSDT"}

InitScore ==
    /\ IdleMonitor
    /\ symbols_24h_gain = EmptyDict
    /\ sel_pc = "idle"
    /\ IdleSelect
    /\ IdleCutoff
    /\ IdlePersist
    /\ IdleLoop
    /\ IdleScore

\* One call of score(), in the evaluation of a symbol.
Score ==
    /\ \E symbol \in ScoredSymbols, candles \in CandleWindows,
          openInterest \in OpenInterestReadings, funding \in FundingRates :
          LET out == score(previousOpenInterest, symbol, candles,
                           openInterest, funding)
          IN  /\ previousOpenInterest' = out.previous
              /\ scored' =
                     [called |-> TRUE, symbol |-> symbol,
                      first |-> symbol \notin DOMAIN previousOpenInterest,
                      candles |-> candles, openInterest |-> openInterest,
                      fundingRatePct |-> funding,
                      previous |-> IF symbol \in DOMAIN previousOpenInterest
                                   THEN previousOpenInterest[symbol]
                                   ELSE openInterest,
                      checks |-> out.checks, found |-> out.found,
                      oiChangePct |-> out.oiChangePct]
    /\ UNCHANGED <<monitorVars, symbols_24h_gain, sel_pc, selectVars, cutoffVars,
                   persistVars, loopVars>>

NextScore == Score

SpecScore == InitScore /\ [][NextScore]_vars

-----------------------------------------------------------------------------
(* Properties of the breakout checks and of the loop iteration *)

\* The iteration just finished is that of symbols[idx].
Checked == pc = "checked"

\* check_cross_above_high ran to its comparison: two rows and a price.
HighChecked(e) == e.evaluated /\ ~KlinesUnusable(e.hk) /\ e.hp.ok

\* check_cross_below_low was called and ran to its comparison.
LowChecked(e) == e.lcalled /\ ~KlinesUnusable(e.lk) /\ e.lp.ok

\* Every request of the iteration was answered: a price for the loop, two
\* rows and a price for each check.
AllAnswered(e) ==
    /\ e.evaluated
    /\ ~KlinesUnusable(e.hk) /\ e.hp.ok
    /\ ~KlinesUnusable(e.lk) /\ e.lp.ok

\* C1: in main.py every evaluation of a symbol after its first compares the
\* current price with the reference the previous evaluation stored
\* (previous_highs / previous_lows), not with the candle fetched in the same
\* evaluation.
C1_ComparesWithStoredReference ==
    [][ (program = "main" /\ pc = "check" /\ pc' = "checked") =>
          LET s == symbols[idx]
              e == lastEval'
          IN  /\ (HighChecked(e) /\ s \in DOMAIN previous_highs) =>
                    (e.hres <=> (e.hp.value > previous_highs[s]
                                 /\ previous_highs[s] > 0))
              /\ (LowChecked(e) /\ s \in DOMAIN previous_lows) =>
                    (e.lres <=> (e.lp.value < previous_lows[s]
                                 /\ previous_lows[s] > 0)) ]_vars

\* C2: after an iteration in which every request was answered, both stored
\* references of the symbol are those of the just-fetched closed candle,
\* whether or not a cross was detected.
C2_BothReferencesOverwritten ==
    (Checked /\ AllAnswered(lastEval)) =>
        LET s == lastEval.symbol
        IN  /\ s \in DOMAIN previous_highs
            /\ previous_highs[s] = lastEval.hk.rows[1].high
            /\ s \in DOMAIN previous_lows
            /\ previous_lows[s] = lastEval.lk.rows[1].low

\* C3 as claimed: the first evaluation of a symbol (no stored reference)
\* seeds the reference from the closed candle and reports no cross, whatever
\* the price.
C3_FirstEvaluationReportsNoCross ==
    Checked =>
        LET s == lastEval.symbol
        IN  /\ (lastEval.hfirst /\ HighChecked(lastEval)) =>
                   /\ ~lastEval.hres
                   /\ previous_highs[s] = lastEval.hk.rows[1].high
            /\ (lastEval.lfirst /\ LowChecked(lastEval)) =>
                   /\ ~lastEval.lres
                   /\ previous_lows[s] = lastEval.lk.rows[1].low

\* C3 as amended: the first evaluation of a symbol seeds the reference from
\* the closed candle and compares the price with that seeded value; it
\* reports a cross exactly when the price is beyond a positive seeded value.
C3_FirstEvaluationComparesWithSeed ==
    Checked =>
        LET s == lastEval.symbol
        IN  /\ (lastEval.hfirst /\ HighChecked(lastEval)) =>
                   /\ lastEval.hres <=>
                          (lastEval.hp.value > lastEval.hk.rows[1].high
                           /\ lastEval.hk.rows[1].high > 0)
                   /\ previous_highs[s] = lastEval.hk.rows[1].high
            /\ (lastEval.lfirst /\ LowChecked(lastEval)) =>
                   /\ lastEval.lres <=>
                          (lastEval.lp.value < lastEval.lk.rows[1].low
                           /\ lastEval.lk.rows[1].low > 0)
                   /\ previous_lows[s] = lastEval.lk.rows[1].low

\* A first evaluation that ran to its comparison and reported a cross.
C3_Witness ==
    /\ Checked
    /\ lastEval.hfirst
    /\ HighChecked(lastEval)
    /\ lastEval.hres

\* C4: in coinselectbot.py, with a stored reference high H, a
\* check_cross_above_high that runs to its comparison answers true exactly
\* when price > H and H > 0, and leaves the high of the candle it fetched as
\* the stored reference, whatever it answered.
C4_CrossIffAboveStoredHigh ==
    [][ (program = "coin" /\ pc = "check" /\ pc' = "checked"
         /\ symbols[idx] \in DOMAIN previous_highs
         /\ HighChecked(lastEval')) =>
          LET s == symbols[idx]
              e == lastEval'
          IN  /\ e.hres <=> (e.hp.value > previous_highs[s]
                             /\ previous_highs[s] > 0)
              /\ previous_highs'[s] = e.hk.rows[1].high ]_vars

\* A cross reported against a stored reference although the price is not
\* above the high of the candle fetched in the call, which then becomes the
\* reference (reference 1, candle high 2, price 2).
C4_Witness ==
    /\ program = "coin"
    /\ Checked
    /\ ~lastEval.hfirst
    /\ HighChecked(lastEval)
    /\ lastEval.hres
    /\ lastEval.hp.value <= lastEval.hk.rows[1].high
    /\ previous_highs[lastEval.symbol] = lastEval.hk.rows[1].high

\* C5: in a cycle at most one alert is sent per symbol, and an iteration in
\* which both the above-high and the below-low condition hold sends no low
\* alert: it sends the high alert (coinselectbot.py: unless the symbol was
\* alerted before, when it sends none).
C5_OneAlertHighFirst ==
    /\ \A i, j \in 1..Len(alerts) :
           alerts[i].symbol = alerts[j].symbol => i = j
    /\ Checked => Len(lastEval.sent) <= 1
    /\ (Checked /\ lastEval.hres /\ lastEval.lwould) =>
           /\ \A i \in 1..Len(lastEval.sent) :
                  lastEval.sent[i].breakout_type = "high"
           /\ program = "main" => Len(lastEval.sent) = 1
           /\ (program = "coin" /\ lastEval.sent = <<>>) =>
                  lastEval.symbol \in alerted_symbols

\* Both conditions held in one iteration and an alert went out.
C5_Witness ==
    /\ Checked
    /\ lastEval.hres
    /\ lastEval.lwould
    /\ Len(lastEval.sent) = 1
    /\ Len(alerts) = 2

-----------------------------------------------------------------------------
(* Properties of the tier cutoffs *)

\* C6 as claimed: for every non-empty filtered set, of size total,
\* 1 <= large_cap_cutoff < mid_cap_cutoff <= total.
C6_CutoffsWithinTotal ==
    (sel_pc = "done" /\ total >= 1) =>
        /\ 1 <= cutoffs[1]
        /\ cutoffs[1] < cutoffs[2]
        /\ cutoffs[2] <= total

\* C6 as amended: for every non-empty filtered set,
\* 1 <= large_cap_cutoff < mid_cap_cutoff, and mid_cap_cutoff <= total when
\* total >= 2; for total = 1 the cutoffs are 1 and 2.
C6_CutoffsOrdered ==
    (sel_pc = "done" /\ total >= 1) =>
        /\ 1 <= cutoffs[1]
        /\ cutoffs[1] < cutoffs[2]
        /\ cutoffs[1] <= total
        /\ total >= 2 => cutoffs[2] <= total
        /\ total = 1 => cutoffs = <<1, 2>>

\* The cutoffs of a single pair.
C6_Witness ==
    /\ sel_pc = "done"
    /\ total = 1
    /\ cutoffs = <<1, 2>>

-----------------------------------------------------------------------------
(* Properties of get_top_gaining_symbols of main.py *)

Selected == sel_pc = "done"

\* The tier of a symbol: that of its first row in the volume order.
HasSymbol(list, symbol) == \E i \in 1..Len(list) : list[i].symbol = symbol

TierOf(symbol, pairs) ==
    IF HasSymbol(large_cap_list(pairs), symbol) THEN 1
    ELSE IF HasSymbol(mid_cap_list(pairs), symbol) THEN 2
    ELSE 3

TierList(tier, pairs) ==
    IF tier = 1 THEN large_cap_list(pairs)
    ELSE IF tier = 2 THEN mid_cap_list(pairs)
    ELSE low_cap_list(pairs)

\* The highest 24h change among the rows of a symbol in its tier.
TierGain(symbol, pairs) ==
    LET list == TierList(TierOf(symbol, pairs), pairs)
        gains == { list[i].priceChangePercent :
                   i \in { k \in 1..Len(list) : list[k].symbol = symbol } }
    IN  CHOOSE g \in gains : \A h \in gains : h <= g

\* C7: the number of symbols selected from each tier is at most that tier's
\* own limit.
C7_PerTierLimits ==
    Selected =>
        /\ tier_counts[1] <= limits[1]
        /\ tier_counts[2] <= limits[2]
        /\ tier_counts[3] <= limits[3]

\* C8: the returned list contains no symbol twice, also when the snapshot
\* lists a symbol more than once.
C8_NoDuplicateSymbols ==
    Selected =>
        \A i, j \in 1..Len(final_list) : final_list[i] = final_list[j] => i = j

\* A snapshot that lists a selected symbol twice, and a list of two symbols.
C8_Witness ==
    /\ Selected
    /\ Len(final_list) >= 2
    /\ \E i, j \in 1..Len(data) :
           /\ i < j
           /\ data[i].symbol = data[j].symbol
           /\ data[i] # data[j]
           /\ data[i].symbol = final_list[2]

\* C9: the returned list is no longer than the sum of the three limits.
C9_LengthWithinLimits ==
    Selected => Len(final_list) <= limits[1] + limits[2] + limits[3]

\* The limit cut the list: more symbols than the limits admit.
C9_Witness ==
    /\ Selected
    /\ Len(final_list) = limits[1] + limits[2] + limits[3]
    /\ Len(final_list) >= 1
    /\ Cardinality({ usdt_pairs(data)[i].symbol : i \in 1..Len(usdt_pairs(data)) })
           > Len(final_list)

\* C10: the returned list is ordered by tier (Large, Mid, Low) and, within a
\* tier, by descending 24h change; two symbols of different volume with the
\* limits <<1, 1, 0>> come out higher volume first.
C10_OrderedByTierThenGain ==
    Selected =>
        LET pairs == usdt_pairs(data)
            tier == [s \in USDTSymbols |-> TierOf(s, pairs)]
            gain == [i \in 1..Len(final_list) |-> TierGain(final_list[i], pairs)]
        IN  /\ \A i, j \in 1..Len(final_list) :
                   i < j =>
                       \/ tier[final_list[i]] < tier[final_list[j]]
                       \/ /\ tier[final_list[i]] = tier[final_list[j]]
                          /\ gain[i] >= gain[j]
            /\ (/\ Len(pairs) = 2
                /\ pairs[1].symbol # pairs[2].symbol
                /\ pairs[1].quoteVolume > pairs[2].quoteVolume
                /\ limits = <<1, 1, 0>>) =>
                   final_list = <<pairs[1].symbol, pairs[2].symbol>>
            /\ (/\ Len(pairs) = 2
                /\ pairs[1].symbol # pairs[2].symbol
                /\ pairs[1].quoteVolume < pairs[2].quoteVolume
                /\ limits = <<1, 1, 0>>) =>
                   final_list = <<pairs[2].symbol, pairs[1].symbol>>

\* Three symbols: a Large one that gained less than the two below it, which
\* share a tier and come out in descending gain.
C10_Witness ==
    /\ Selected
    /\ Len(final_list) = 3
    /\ LET pairs == usdt_pairs(data)
       IN  /\ TierOf(final_list[1], pairs) = 1
           /\ TierOf(final_list[2], pairs) = TierOf(final_list[3], pairs)
           /\ TierGain(final_list[1], pairs) < TierGain(final_list[2], pairs)
           /\ TierGain(final_list[2], pairs) > TierGain(final_list[3], pairs)

-----------------------------------------------------------------------------
(* Properties of the first-seen times and of persistence *)

\* C11: across refreshes, a first-seen time that is set never changes, and a
\* symbol's first-seen time is set by the first refresh that selects it: a new
\* entry belongs to a symbol of the new watchlist and holds the time of that
\* refresh, and every symbol of a watchlist has an entry.
C11_EntryTimeSetOnceAtFirstSelection ==
    [][ /\ \A s \in DOMAIN symbol_entry_times :
              /\ s \in DOMAIN symbol_entry_times'
              /\ symbol_entry_times'[s] = symbol_entry_times[s]
        /\ \A s \in (DOMAIN symbol_entry_times') \ (DOMAIN symbol_entry_times) :
              /\ s \in SymbolsOf(symbols')
              /\ symbol_entry_times'[s] = now
        /\ SymbolsOf(symbols') \subseteq DOMAIN symbol_entry_times' ]_vars

\* A symbol is on the watchlist again after a refresh had dropped it, and its
\* first-seen time is still the earlier one.
C11_Witness ==
    \E s \in DOMAIN on_since :
        /\ s \in DOMAIN symbol_entry_times
        /\ symbol_entry_times[s] < on_since[s]
        /\ on_since[s] < now

\* C12: is_persistent_symbol answers true for a symbol of the watchlist only
\* if the symbol has been on the watchlist without interruption for more than
\* the threshold (a symbol dropped and selected again counts from its
\* re-selection).
C12_PersistentOnlyIfContinuouslyListed ==
    (queried.asked /\ queried.result /\ queried.symbol \in DOMAIN on_since)
        => now - on_since[queried.symbol] > 172800

\* C13: is_persistent_symbol answers true if and only if the symbol has a
\* first-seen time and more than 172800 seconds have passed since.
C13_PersistentIffBeyondThreshold ==
    queried.asked =>
        (queried.result <=>
            /\ queried.symbol \in DOMAIN symbol_entry_times
            /\ now - symbol_entry_times[queried.symbol] >= 172801)

\* Asked exactly 172800 seconds after the first selection: not persistent.
C13_Witness ==
    /\ queried.asked
    /\ ~queried.result
    /\ queried.symbol \in DOMAIN symbol_entry_times
    /\ now - symbol_entry_times[queried.symbol] = 172800

-----------------------------------------------------------------------------
(* Properties of the monitor loop *)

\* C14: within one cycle, a failure while processing a symbol (no price, no
\* usable candles, an exception) never keeps a later symbol of the watchlist
\* from being evaluated: after a failure the loop is at a symbol of the
\* watchlist, and it leaves only when every symbol has had its iteration.
C14_FailureDoesNotStopTheCycle ==
    cycle.failed_at > 0 =>
        /\ pc \in {"check", "sleep"}
        /\ pc = "check" => (idx = cycle.attempted + 1 /\ idx <= Len(symbols))
        /\ pc = "sleep" => cycle.attempted = Len(symbols)

\* The first symbol of a watchlist of two failed, and the second had its
\* iteration.
C14_Witness ==
    /\ pc = "sleep"
    /\ Len(symbols) = 2
    /\ cycle.failed_at = 1
    /\ cycle.attempted = 2

\* C15: after a whole-cycle failure (the ticker request of the refresh fails,
\* or an exception escapes the cycle body) the loop sleeps check_interval and
\* starts another cycle, and it never stops.
C15_FailureSleepsThenNextCycle ==
    /\ [][ /\ (pc = "failed" \/ (pc = "sleep" /\ cycle.ticker_failed)) =>
                 /\ pc' = "start"
                 /\ clock' = (clock + check_interval) % 3600
           /\ (pc = "start" /\ cycle'.ticker_failed) => pc' = "sleep"
           /\ pc' \in {"start", "check", "sleep", "failed"} ]_vars
    /\ (pc = "failed" \/ cycle.ticker_failed) ~> (pc = "start")

\* A cycle is about to start after the sleep of the outer exception handler.
C15_Witness ==
    /\ pc = "start"
    /\ cycle.slept_after_failure

\* C16: a cycle that starts with an empty watchlist, or is the first to start
\* after the clock passed an hour boundary, refreshes the watchlist before it
\* evaluates any symbol.
C16_RefreshedWhenDue ==
    (cycle.due /\ pc \in {"check", "sleep"}) => cycle.refreshed

\* C17: a delivery that fails (HTTP error, exception, no credentials) makes
\* send_telegram_alert return False without raising; the iteration makes that
\* one attempt only, no alert for the symbol was attempted earlier in the
\* cycle, and the loop goes on to the next symbol, or to the sleep that
\* precedes the next cycle.
C17_DeliveryFailureIsDroppedAndTheLoopGoesOn ==
    [][ (pc = "check" /\ Len(cycle'.deliveries) > Len(cycle.deliveries)) =>
            LET last == cycle'.deliveries[Len(cycle'.deliveries)]
            IN  /\ Len(cycle'.deliveries) = Len(cycle.deliveries) + 1
                /\ ~last.raised
                /\ last.result = (last.outcome = "ok")
                /\ last.outcome \in {"ok", "http_error", "exception", "no_credentials"}
                /\ \A i \in 1..Len(cycle.deliveries) :
                       cycle.deliveries[i].symbol # last.symbol
                /\ idx' = idx + 1
                /\ pc' = IF idx < Len(symbols) THEN "check" ELSE "sleep" ]_vars

\* The alert for the first of two symbols met an HTTP error, and the second
\* symbol had its iteration.
C17_Witness ==
    /\ pc = "sleep"
    /\ cycle.attempted = 2
    /\ Len(cycle.deliveries) >= 1
    /\ cycle.deliveries[1].symbol = symbols[1]
    /\ cycle.deliveries[1].outcome = "http_error"
    /\ ~cycle.deliveries[1].result

\* C20: in coinselectbot.py at most one alert is sent for a symbol between two
\* refreshes of the watchlist, and alerted_symbols holds exactly the symbols
\* alerted since the last refresh.
C20_OneAlertPerSymbolBetweenRefreshes ==
    program = "coin" =>
        /\ \A s \in DOMAIN alerted_since_refresh : alerted_since_refresh[s] <= 1
        /\ alerted_symbols =
               { s \in DOMAIN alerted_since_refresh : alerted_since_refresh[s] >= 1 }

\* A cycle that did not refresh has had the iteration of a symbol alerted in an
\* earlier cycle, and sent nothing for it.
C20_Witness ==
    /\ program = "coin"
    /\ ~cycle.refreshed
    /\ cycle.attempted >= 1
    /\ symbols[1] \in alerted_symbols
    /\ cycle.deliveries = <<>>

-----------------------------------------------------------------------------
(* Properties of the setup scorer *)

\* The range of candle i of the last call's window.
RangeAt(i) == scored.candles[i].high - scored.candles[i].low

\* C18: score() returns metrics if and only if all four checks pass: the last
\* range is at most 30% of the positive mean of the six ranges before it, the
\* last close is within 1% of the close before, the open interest is at least
\* 15% above the stored one, and the funding rate is at least 0.10 in size.
C18_MetricsIffAllFourChecksPass ==
    scored.called =>
        (scored.found <=>
            /\ RangeAt(1) + RangeAt(2) + RangeAt(3)
                   + RangeAt(4) + RangeAt(5) + RangeAt(6) > 0
            /\ 20 * RangeAt(7) <= RangeAt(1) + RangeAt(2) + RangeAt(3)
                                      + RangeAt(4) + RangeAt(5) + RangeAt(6)
            /\ scored.candles[7].close * 100 <= scored.candles[6].close * 101
            /\ scored.candles[7].close * 100 >= scored.candles[6].close * 99
            /\ scored.openInterest * 100 >= scored.previous * 115
            /\ (scored.fundingRatePct >= 10 \/ scored.fundingRatePct <= 0 - 10))

\* Three checks pass and the funding rate alone is too small: no setup.
C18_Witness ==
    /\ scored.called
    /\ ~scored.found
    /\ scored.checks = <<TRUE, TRUE, TRUE, FALSE>>

\* C19: after every call of score() the stored open interest of the symbol is
\* the reading of that call, whichever checks passed, and the first call for a
\* symbol does not pass the open-interest check.
C19_OpenInterestStoredAfterEveryCall ==
    scored.called =>
        /\ scored.symbol \in DOMAIN previousOpenInterest
        /\ previousOpenInterest[scored.symbol] = scored.openInterest
        /\ scored.first => (~scored.checks[3] /\ ~scored.found)

\* A call whose volatility check failed has replaced a different stored
\* reading.
C19_Witness ==
    /\ scored.called
    /\ ~scored.first
    /\ ~scored.checks[1]
    /\ scored.previous # scored.openInterest
    /\ previousOpenInterest[scored.symbol] = scored.openInterest

-----------------------------------------------------------------------------
(* Properties of a check that cannot complete, and of the values of an alert *)

\* The request a check could not complete: its candles or its price.
HighFailed(e) == e.evaluated /\ (KlinesUnusable(e.hk) \/ ~e.hp.ok)

LowFailed(e) == e.lcalled /\ (KlinesUnusable(e.lk) \/ ~e.lp.ok)

\* C21: a check whose candle fetch fails or returns fewer than 2 candles, or
\* whose price fetch fails, reports no cross and writes no reference: the
\* dictionary it maintains is unchanged for every symbol (the other
\* dictionary is never written by it), and an iteration whose checks all
\* failed changes neither dictionary and sends no alert.
C21_FailedCheckReportsNoCrossAndWritesNothing ==
    [][ (pc = "check" /\ pc' = "checked") =>
          LET e == lastEval'
          IN  /\ HighFailed(e) =>
                    (~e.hres /\ previous_highs' = previous_highs)
              /\ LowFailed(e) =>
                    (~e.lres /\ previous_lows' = previous_lows)
              /\ (e.evaluated /\ ~e.lcalled) =>
                    previous_lows' = previous_lows
              /\ (HighFailed(e) /\ LowFailed(e)) => e.sent = <<>> ]_vars

\* The low check lost its price request while a different low was stored,
\* and the high check of the same iteration got no candles.
C21_Witness ==
    /\ Checked
    /\ KlinesUnusable(lastEval.hk)
    /\ lastEval.lcalled
    /\ ~KlinesUnusable(lastEval.lk)
    /\ ~lastEval.lp.ok
    /\ lastEval.symbol \in DOMAIN previous_lows
    /\ previous_lows[lastEval.symbol] # lastEval.lk.rows[1].low
    /\ lastEval.symbol \in DOMAIN previous_highs

\* C22 as claimed: every alert carries values that agree with its direction,
\* a "high" alert a current price above its reference price and a "low"
\* alert a current price below it, whatever the price and the candles did
\* between the loop's own price request, the requests of the check and the
\* overwrite of the reference.
C22_AlertValuesMatchDirection ==
    Checked =>
        \A i \in 1..Len(lastEval.sent) :
            LET a == lastEval.sent[i]
            IN  /\ a.breakout_type = "high" =>
                       a.current_price > a.reference_price
                /\ a.breakout_type = "low" =>
                       a.current_price < a.reference_price

-----------------------------------------------------------------------------
(* Properties of the hourly evaluation of main.py *)

\* C23 as claimed: main.py run with check_interval = 300, whatever the start
\* time and the duration of its cycles, evaluates breakouts in every clock
\* hour: no hour that began while it ran is left without a cycle that read
\* clock minute 0 and entered the for loop.
C23_EveryHourHasAnEvaluation ==
    (program = "main" /\ check_interval = 300) => this_hour # "missed"

-----------------------------------------------------------------------------
(* Properties of a refresh whose ticker request fails *)

\* The refresh the cycle has just run was triggered at clock minute 0 with a
\* non-empty watchlist, and its ticker request failed.
FailedHourlyRefresh(r) == r.failed /\ r.minute0 /\ r.had_watchlist

\* C24: a refresh triggered at clock minute 0 with a non-empty watchlist whose
\* ticker request fails leaves the watchlist empty, the cycle goes to its
\* sleep without evaluating a symbol or sending an alert, and
\* symbol_entry_times, previous_highs and previous_lows are as before; the
\* next cycle calls get_top_gaining_symbols again whatever minute the clock
\* reads.
C24_FailedRefreshEmptiesTheWatchlist ==
    [][ (pc = "start" /\ pc' # "start") =>
          /\ FailedHourlyRefresh(refreshing') =>
                /\ symbols # <<>>
                /\ symbols' = <<>>
                /\ pc' = "sleep"
                /\ lastEval' = NoEval
                /\ alerts' = alerts
                /\ symbol_entry_times' = symbol_entry_times
                /\ previous_highs' = previous_highs
                /\ previous_lows' = previous_lows
          /\ FailedHourlyRefresh(refreshing) =>
                (symbols = <<>> /\ refreshing'.attempted) ]_vars

\* Such a refresh has emptied the watchlist while references and first-seen
\* times recorded before it are stored.
C24_Witness ==
    /\ pc = "sleep"
    /\ FailedHourlyRefresh(refreshing)
    /\ symbols = <<>>
    /\ previous_highs # EmptyDict
    /\ previous_lows # EmptyDict
    /\ symbol_entry_times # EmptyDict

====
